---- MODULE Spec2Model ----
(***************************************************************************)
(* The event-loop callbacks of the four demo programs of the repository:   *)
(*   main         src/main.rs              softbuffer window               *)
(*   glow_run     src/bin/glow_run.rs      glutin/glow triangle            *)
(*   ai_one       src/bin/ai_one.rs        glow triangle + egui overlay    *)
(*   eframe_winit src/bin/eframe_winit.rs  eframe application              *)
(* The state is Application.windows (window id -> WindowState), MyApp for   *)
(* the eframe program, and what the handlers do to the outside world: the   *)
(* calls the last handler made, in order (trace), the number of             *)
(* event_loop.exit() calls, and whether an unwrap/expect aborted the        *)
(* process.  Floats are counted in tenths (1.0 is 10).                      *)
(***************************************************************************)
EXTENDS Integers, Sequences, FiniteSets

VARIABLES prog, windows, app, exitCalls, panicked, nextId, closed, trace,
          last, obs

vars == <<prog, windows, app, exitCalls, panicked, nextId, closed, trace,
          last, obs>>

----------------------------------------------------------------------------
(* Bounds of the model *)

\* number of windows the platform hands out over a run
MaxWindows == 2
\* texture ids an egui frame may name in its texture delta
MaxTex == 1
\* Space presses the observer counts before it starts a new count
MaxPresses == 2
\* Space presses one eframe frame's input may hold
MaxFramePresses == 2
\* GL configurations the display may offer to the config picker
MaxConfigs == 3

----------------------------------------------------------------------------
(* Program constants *)

Progs == {"main", "glow_run", "ai_one", "eframe_winit"}

\* 1.0 in tenths
One == 10
\* color: [1.0, 0.5, 0.2]
InitialColor == <<10, 5, 2>>
\* show_color_picker: false
InitialShow == FALSE
\* a slip: the sliders given the range -1.0..=2.0
WideSliderRange == [lo |-> -One, hi |-> 2 * One]

\* the slider range 0.0..=1.0
SliderRange == [lo |-> 0, hi |-> One]
\* draw_arrays(glow::TRIANGLES, 0, 3)
TriangleVertices == 3

----------------------------------------------------------------------------
(* Inputs of the platform and of the UI library *)

Ids == 1..MaxWindows
TexIds == 1..MaxTex
Dims == {0, 600}
Keys == {"Space", "KeyA"}
\* where the pointer is while it drags a slider, in tenths of the slider's
\* width: -5 is left of the slider, 15 right of it
LeftOf == -(One \div 2)
RightOf == One + One \div 2

Ev(k, w, h, key, pressed) ==
    [kind |-> k, w |-> w, h |-> h, key |-> key, pressed |-> pressed]

NoEvent == Ev("none", 0, 0, "none", FALSE)

Events ==
    {Ev("CloseRequested", 0, 0, "none", FALSE),
     Ev("RedrawRequested", 0, 0, "none", FALSE),
     Ev("Focused", 0, 0, "none", FALSE)}
    \cup {Ev("Resized", w, h, "none", FALSE) : w \in Dims, h \in Dims}
    \cup {Ev("KeyboardInput", 0, 0, k, p) : k \in Keys, p \in BOOLEAN}

\* egui_winit::EventResponse
Responses == [repaint : BOOLEAN, consumed : BOOLEAN]
NoResponse == [repaint |-> FALSE, consumed |-> FALSE]
\* what egui may answer to an event forwarded to it; the other programs
\* forward nothing.  consumed says whether egui used a key.
ResponsesTo(p, ev) ==
    IF p # "ai_one" THEN {NoResponse}
    ELSE IF ev.kind = "KeyboardInput" /\ ev.pressed /\ ev.key = "Space"
         THEN Responses
    ELSE {r \in Responses : ~r.consumed}

\* what the pointer does to the picker window during one UI frame
UiInputs ==
    {[widget |-> "none", pos |-> 0], [widget |-> "close", pos |-> 0],
     [widget |-> "red", pos |-> LeftOf], [widget |-> "red", pos |-> RightOf],
     [widget |-> "green", pos |-> RightOf], [widget |-> "blue", pos |-> LeftOf]}
NoUi == [widget |-> "none", pos |-> 0]

\* egui's TexturesDelta of one frame: the ids of the textures to upload and
\* of those to free, up to MaxTex of each
Deltas == {[set |-> 1..s, free |-> 1..f] : s \in 0..MaxTex, f \in 0..MaxTex}
NoDelta == [set |-> {}, free |-> {}]

\* num_samples() of the configurations a display may offer
Samples == {0, 4}
\* the iterator handed to the picker: the offered configurations in order,
\* each stood for by its sample count; a configuration is named by its place
ConfigSeqs == UNION {[1..n -> Samples] : n \in 0..MaxConfigs}

Call(op, arg) == [op |-> op, arg |-> arg]

RECURSIVE SetToSeq(_)
SetToSeq(S) ==
    IF S = {} THEN <<>>
    ELSE LET m == CHOOSE x \in S : \A y \in S : x <= y
         IN  <<m>> \o SetToSeq(S \ {m})

Positions(tr, op) == {i \in 1..Len(tr) : tr[i].op = op}
Count(tr, op) == Cardinality(Positions(tr, op))

----------------------------------------------------------------------------
(* Application.windows: HashMap<WindowId, WindowState> *)

EmptyMap == [i \in {} |-> 0]

Insert(ws, id, st) == [i \in DOMAIN ws \cup {id} |-> IF i = id THEN st ELSE ws[i]]

\* a slip: clear() for remove(&window_id)
RemoveAll(ws, id) == [i \in {} |-> ws[i]]

Remove(ws, id) == [i \in DOMAIN ws \ {id} |-> ws[i]]

Known(ws, id) == id \in DOMAIN ws

\* The WindowState create_window stores under the window's id: the window
\* and, in ai_one, show_color_picker and color.  The surface, the context and
\* the egui objects are handles whose use shows in the trace.
NewWindowState(p, id) ==
    IF p = "ai_one"
    THEN [window |-> id, show_color_picker |-> InitialShow,
          color |-> InitialColor]
    ELSE [window |-> id]

\* MyApp::new
MyAppNew == [show_color_picker |-> InitialShow, color |-> InitialColor]

----------------------------------------------------------------------------
(* resumed *)

\* whether resumed calls create_window
ResumedCreates(p, ws) ==
    IF p = "main" THEN TRUE ELSE DOMAIN ws = {}

----------------------------------------------------------------------------
(* create_window: the config picker *)

\* a slip: >= for >
PickerTakesOnTie(config, accum) == config >= accum

\* config.num_samples() > accum.num_samples()
PickerTakes(config, accum) == config > accum

\* Iterator::reduce from the configuration at place i on; accum is the place
\* of the configuration kept so far
RECURSIVE Reduce(_, _, _)
Reduce(configs, accum, i) ==
    IF i > Len(configs) THEN accum
    ELSE Reduce(configs,
                IF PickerTakes(configs[i], configs[accum]) THEN i ELSE accum,
                i + 1)

\* configs.reduce(..): the place of the configuration returned; 0 is None,
\* which the unwrap() that follows turns into a panic
PickConfig(configs) ==
    IF configs = <<>> THEN 0 ELSE Reduce(configs, 1, 2)

\* display_builder.build(event_loop, template, picker): the display finds its
\* configurations and runs the picker, which reads their sample counts
BuildTrace(id, offered) ==
    <<Call("build", id)>>
    \o [i \in 1..Len(offered) |-> Call("num_samples", offered[i])]
    \o <<Call("reduce", PickConfig(offered))>>

----------------------------------------------------------------------------
(* create_window: shader setup (the same code in glow_run, ai_one and       *)
(* TriangleRenderer::new)                                                    *)

ShaderSources == <<"VERTEX_SHADER", "FRAGMENT_SHADER">>

RECURSIVE Flatten(_)
Flatten(ss) == IF ss = <<>> THEN <<>> ELSE Head(ss) \o Flatten(Tail(ss))

\* a slip: the shader attached before its compile status is read
ShaderStageTraceAttachFirst(i) ==
    <<Call("create_shader", i), Call("shader_source", i),
      Call("compile_shader", i), Call("attach_shader", i),
      Call("get_shader_compile_status", i)>>

\* the body of the loop over shader_sources, for the stage at place i
ShaderStageTrace(i) ==
    <<Call("create_shader", i), Call("shader_source", i),
      Call("compile_shader", i), Call("get_shader_compile_status", i),
      Call("attach_shader", i)>>

\* for shader in shaders { detach_shader; delete_shader }
ShaderReleaseTrace ==
    Flatten([i \in 1..Len(ShaderSources) |->
                <<Call("detach_shader", i), Call("delete_shader", i)>>])

ShaderSetupTrace(id) ==
    <<Call("create_vertex_array", id), Call("bind_vertex_array", id),
      Call("create_program", id)>>
    \o Flatten([i \in 1..Len(ShaderSources) |-> ShaderStageTrace(i)])
    \o <<Call("link_program", id), Call("get_program_link_status", id)>>
    \o ShaderReleaseTrace

----------------------------------------------------------------------------
(* create_window: every step, in order *)

\* glow_run and ai_one up to the GL function loader.  window_handle() may
\* fail: .ok() turns the Err into None (0 here) and the steps go on, the
\* context attributes built without a raw window handle.
GlContextTrace(id, offered, handle) ==
    BuildTrace(id, offered)
    \o <<Call("window_handle", IF handle THEN id ELSE 0),
         Call("build_surface_attributes", id),
         Call("create_window_surface", id), Call("create_context", id),
         Call("make_current", id), Call("from_loader_function_cstr", id)>>

StoreTrace(id) == <<Call("insert", id)>>

\* a slip: the entry stored as soon as the context is current
CreateTraceStoresEarly(p, id, offered, handle) ==
    IF p = "main"
    THEN <<Call("create_window", id)>> \o StoreTrace(id)
         \o <<Call("Surface_new", id)>>
    ELSE GlContextTrace(id, offered, handle) \o StoreTrace(id)
         \o ShaderSetupTrace(id)
         \o (IF p = "ai_one"
             THEN <<Call("State_new", id), Call("Painter_new", id),
                    Call("focus_window", id)>>
             ELSE <<Call("use_program", id), Call("clear_color", id)>>)

CreateTrace(p, id, offered, handle) ==
    IF p = "main"
    THEN <<Call("create_window", id), Call("Surface_new", id)>>
         \o StoreTrace(id)
    ELSE GlContextTrace(id, offered, handle) \o ShaderSetupTrace(id)
         \o (IF p = "ai_one"
             THEN <<Call("State_new", id), Call("Painter_new", id),
                    Call("focus_window", id)>>
             ELSE <<Call("use_program", id), Call("clear_color", id)>>)
         \o StoreTrace(id)

NoFail == Call("none", 0)

\* the steps whose failure is an Err handed to resumed's expect (?), an
\* unwrap() or expect() on the spot, or a status that is false and panics
CreateFallible(p, id) ==
    IF p = "main"
    THEN {Call("create_window", id), Call("Surface_new", id)}
    ELSE {Call("build", id), Call("build_surface_attributes", id),
          Call("create_window_surface", id), Call("create_context", id),
          Call("make_current", id), Call("create_vertex_array", id),
          Call("create_program", id), Call("get_program_link_status", id)}
         \cup {Call("create_shader", i) : i \in 1..Len(ShaderSources)}
         \cup {Call("get_shader_compile_status", i) :
                  i \in 1..Len(ShaderSources)}
         \cup (IF p = "ai_one" THEN {Call("Painter_new", id)} ELSE {})

\* where the steps stop: at the call failAt names, or at a reduce that
\* returned None
FailPositions(tr, failAt) ==
    {i \in 1..Len(tr) : tr[i] = failAt \/ tr[i] = Call("reduce", 0)}

CreateFails(tr, failAt) == FailPositions(tr, failAt) # {}

\* panic!("{}", gl.get_shader_info_log(shader)) and its program analogue
InfoLogTrace(c) ==
    IF c.op = "get_shader_compile_status"
    THEN <<Call("get_shader_info_log", c.arg)>>
    ELSE IF c.op = "get_program_link_status"
    THEN <<Call("get_program_info_log", c.arg)>>
    ELSE <<>>

FirstFail(tr, failAt) ==
    CHOOSE i \in FailPositions(tr, failAt) :
        \A j \in FailPositions(tr, failAt) : i <= j

\* the step that failed
FailedStep(tr, failAt) ==
    IF CreateFails(tr, failAt) THEN tr[FirstFail(tr, failAt)] ELSE NoFail

\* the calls create_window makes before it returns or the process aborts
CreateOutcome(tr, failAt) ==
    IF CreateFails(tr, failAt)
    THEN SubSeq(tr, 1, FirstFail(tr, failAt))
         \o InfoLogTrace(FailedStep(tr, failAt))
    ELSE tr

\* self.windows.insert(window_id, window_state) was reached
Stored(tr) == Count(tr, "insert") > 0

\* what the platform and the driver may do to one create_window: which
\* configurations the display offers, whether the window has a handle to
\* give, and which step fails, if any
DefaultOffer == <<0>>
CreateInputs(p, id) ==
    IF p = "main"
    THEN {[offered |-> <<>>, handle |-> TRUE, failAt |-> f] :
             f \in {NoFail} \cup CreateFallible(p, id)}
    ELSE {[offered |-> o, handle |-> TRUE, failAt |-> NoFail] :
             o \in ConfigSeqs}
         \cup {[offered |-> DefaultOffer, handle |-> TRUE, failAt |-> f] :
                  f \in CreateFallible(p, id)}
         \cup {[offered |-> DefaultOffer, handle |-> FALSE, failAt |-> NoFail]}

----------------------------------------------------------------------------
(* window_event: lookup, keyboard interception, forwarding to egui *)

\* a slip: CloseRequested handled before the lookup
DroppedUnlessClose(ws, id, ev) == ~Known(ws, id) /\ ev.kind # "CloseRequested"

\* None => return
Dropped(ws, id, ev) == ~Known(ws, id)

\* a slip: the key's state not looked at, so a release toggles too
KeyTogglesAnyState(ev) ==
    ev.kind = "KeyboardInput" /\ ev.key = "Space"

KeyToggles(ev) ==
    ev.kind = "KeyboardInput" /\ ev.pressed /\ ev.key = "Space"

\* the first match of ai_one's window_event; the other programs have none
KeyState(p, st, ev) ==
    IF p = "ai_one" /\ KeyToggles(ev)
    THEN [st EXCEPT !.show_color_picker = ~@]
    ELSE st

KeyTrace(p, id, ev) ==
    IF p = "ai_one" /\ KeyToggles(ev)
    THEN <<Call("toggle", id), Call("request_redraw", id)>>
    ELSE <<>>

\* egui_winit.on_window_event and the redraw its response asks for
ForwardTrace(p, id, resp) ==
    IF p = "ai_one"
    THEN <<Call("on_window_event", id)>>
         \o (IF resp.repaint THEN <<Call("request_redraw", id)>> ELSE <<>>)
    ELSE <<>>

\* a slip: the event forwarded to egui before the key is looked at
HandlerTraceForwardFirst(keyTr, fwdTr, armTr) == fwdTr \o keyTr \o armTr

\* the order of the three parts of window_event
HandlerTrace(keyTr, fwdTr, armTr) == keyTr \o fwdTr \o armTr

----------------------------------------------------------------------------
(* CloseRequested *)

\* a slip: the test negated
CloseExitsWhenNotEmpty(ws) == DOMAIN ws # {}

\* self.windows.is_empty(), asked after the removal
CloseExits(ws) == DOMAIN ws = {}

CloseTrace(ws, id) ==
    <<Call("remove", id)>>
    \o (IF CloseExits(Remove(ws, id)) THEN <<Call("exit", 0)>> ELSE <<>>)

----------------------------------------------------------------------------
(* Resized *)

\* NonZeroU32::new(x).is_some()
NonZero(x) == x # 0

\* a slip: || for &&
ResizedGuardEither(p, w, h) == w # 0 \/ h # 0

ResizedGuard(p, w, h) ==
    IF p = "main" THEN NonZero(w) /\ NonZero(h) ELSE w # 0 /\ h # 0

\* NonZeroU32::new(..).unwrap() of glow_run and ai_one, reached past the guard
ResizedUnwrapPanics(p, w, h) ==
    p # "main" /\ ResizedGuard(p, w, h) /\ ~(NonZero(w) /\ NonZero(h))

ResizedTrace(p, id, w, h) ==
    IF ResizedGuard(p, w, h) /\ ~ResizedUnwrapPanics(p, w, h)
    THEN <<Call("resize", id), Call("request_redraw", id)>>
    ELSE <<>>

----------------------------------------------------------------------------
(* RedrawRequested *)

Clamp(x, lo, hi) == IF x < lo THEN lo ELSE IF x > hi THEN hi ELSE x

\* egui::Slider::new(&mut value, range): a drag sets the value to the pointer's
\* position clamped to the range; without a drag the value stays
Slider(value, range, dragged, pos) ==
    IF dragged THEN Clamp(pos, range.lo, range.hi) ELSE value

\* the UI closure: the picker window with its close button and three sliders
ColorPicker(st, ui) ==
    IF st.show_color_picker
    THEN [st EXCEPT
            !.show_color_picker = (ui.widget # "close"),
            !.color = <<Slider(@[1], SliderRange, ui.widget = "red", ui.pos),
                        Slider(@[2], SliderRange, ui.widget = "green", ui.pos),
                        Slider(@[3], SliderRange, ui.widget = "blue", ui.pos)>>]
    ELSE st

\* a slip: ai_one draws with whatever the overlay left bound
TriangleTraceNoRebind(p, id) ==
    IF p = "ai_one"
    THEN <<Call("inner_size", id), Call("viewport", id), Call("clear_color", id),
           Call("clear", id), Call("get_uniform_location", id),
           Call("uniform_3_f32", id), Call("draw_arrays", TriangleVertices)>>
    ELSE <<Call("clear", id), Call("draw_arrays", TriangleVertices)>>

TriangleTrace(p, id) ==
    IF p = "ai_one"
    THEN <<Call("inner_size", id), Call("viewport", id), Call("clear_color", id),
           Call("clear", id), Call("use_program", id),
           Call("bind_vertex_array", id), Call("get_uniform_location", id),
           Call("uniform_3_f32", id), Call("draw_arrays", TriangleVertices)>>
    ELSE <<Call("clear", id), Call("draw_arrays", TriangleVertices)>>

UploadTrace(delta) == [i \in 1..Cardinality(delta.set) |->
                          Call("set_texture", SetToSeq(delta.set)[i])]

FreeTrace(delta) == [i \in 1..Cardinality(delta.free) |->
                        Call("free_texture", SetToSeq(delta.free)[i])]

\* a slip: the retired textures freed before the overlay is painted
OverlayTraceFreesFirst(id, delta) ==
    <<Call("take_egui_input", id), Call("run", id),
      Call("handle_platform_output", id)>>
    \o UploadTrace(delta)
    \o FreeTrace(delta)
    \o <<Call("tessellate", id), Call("paint_primitives", id)>>

\* a slip: the platform output handled after the overlay is painted
OverlayTracePlatformLast(id, delta) ==
    <<Call("take_egui_input", id), Call("run", id)>>
    \o UploadTrace(delta)
    \o <<Call("tessellate", id), Call("paint_primitives", id),
         Call("handle_platform_output", id)>>
    \o FreeTrace(delta)

OverlayTrace(id, delta) ==
    <<Call("take_egui_input", id), Call("run", id),
      Call("handle_platform_output", id)>>
    \o UploadTrace(delta)
    \o <<Call("tessellate", id), Call("paint_primitives", id)>>
    \o FreeTrace(delta)

PresentTrace(id) == <<Call("swap_buffers", id)>>

\* a slip: the overlay painted first, the triangle over it
RedrawTraceOverlayFirst(id, delta) ==
    OverlayTrace(id, delta) \o TriangleTrace("ai_one", id) \o PresentTrace(id)

RedrawTraceAiOne(id, delta) ==
    TriangleTrace("ai_one", id) \o OverlayTrace(id, delta) \o PresentTrace(id)

RedrawTraceGlowRun(id) == TriangleTrace("glow_run", id) \o PresentTrace(id)

\* main.rs: the window's inner size sz decides whether anything is drawn
RedrawTraceMain(id, sz) ==
    <<Call("inner_size", id)>>
    \o (IF NonZero(sz[1]) /\ NonZero(sz[2])
        THEN <<Call("resize", id), Call("buffer_mut", id), Call("fill", id),
               Call("pre_present_notify", id), Call("present", id)>>
        ELSE <<>>)

RedrawTrace(p, id, delta, sz) ==
    IF p = "ai_one" THEN RedrawTraceAiOne(id, delta)
    ELSE IF p = "glow_run" THEN RedrawTraceGlowRun(id)
    ELSE RedrawTraceMain(id, sz)

----------------------------------------------------------------------------
(* unwrap() on a call that returned Err aborts the process *)

\* the calls of an arm whose result is unwrapped
Fallible(p, kind) ==
    IF kind = "RedrawRequested"
    THEN IF p = "main" THEN {"resize", "buffer_mut", "present"}
         ELSE {"swap_buffers"}
    ELSE IF kind = "Resized" /\ p = "main" THEN {"resize"}
    ELSE {}

Fails(tr, failAt) == Positions(tr, failAt) # {}

\* the calls made up to and including the one that failed
Truncate(tr, failAt) ==
    IF Fails(tr, failAt)
    THEN SubSeq(tr, 1, CHOOSE i \in Positions(tr, failAt) :
                          \A j \in Positions(tr, failAt) : i <= j)
    ELSE tr

ArmTrace(p, ws, id, ev, delta, sz) ==
    IF ev.kind = "CloseRequested" THEN CloseTrace(ws, id)
    ELSE IF ev.kind = "RedrawRequested" THEN RedrawTrace(p, id, delta, sz)
    ELSE IF ev.kind = "Resized" THEN ResizedTrace(p, id, ev.w, ev.h)
    ELSE <<>>

\* the window's state after the arm: only ai_one's UI closure writes to it
ArmState(p, st, ev, ui) ==
    IF p = "ai_one" /\ ev.kind = "RedrawRequested"
    THEN ColorPicker(st, ui)
    ELSE st

----------------------------------------------------------------------------
(* about_to_wait *)

\* a slip: a redraw requested only for the windows that show the picker
AboutToWaitTraceShownOnly(p, ws) ==
    IF p = "ai_one"
    THEN LET S == {i \in DOMAIN ws : ws[i].show_color_picker}
         IN  [i \in 1..Cardinality(S) |-> Call("request_redraw", SetToSeq(S)[i])]
    ELSE <<>>

\* ai_one requests a redraw of every window of the mapping (HashMap order is
\* unspecified; windows are listed by id).  The other programs keep the
\* trait's empty default.
AboutToWaitTrace(p, ws) ==
    IF p = "ai_one"
    THEN [i \in 1..Cardinality(DOMAIN ws) |->
             Call("request_redraw", SetToSeq(DOMAIN ws)[i])]
    ELSE <<>>

----------------------------------------------------------------------------
(* eframe_winit: MyApp::update and TriangleRenderer::paint *)

\* i.key_pressed(egui::Key::Space): the frame's input holds a press of Space
KeyPressed(presses) == presses > 0

MyAppToggle(a, presses) ==
    IF KeyPressed(presses)
    THEN [a EXCEPT !.show_color_picker = ~@]
    ELSE a

MyAppUpdate(a, presses, ui) == ColorPicker(MyAppToggle(a, presses), ui)

\* MyApp::new: the glow context of the CreationContext, then
\* TriangleRenderer::new
MyAppNewTrace == <<Call("gl", 0)>> \o ShaderSetupTrace(0)

MyAppNewFallible ==
    {Call("gl", 0), Call("create_vertex_array", 0), Call("create_program", 0),
     Call("get_program_link_status", 0)}
    \cup {Call("create_shader", i) : i \in 1..Len(ShaderSources)}
    \cup {Call("get_shader_compile_status", i) : i \in 1..Len(ShaderSources)}

PaintTrace ==
    <<Call("use_program", 0), Call("bind_vertex_array", 0),
      Call("get_uniform_location", 0), Call("uniform_3_f32", 0),
      Call("draw_arrays", TriangleVertices)>>

UpdateTrace ==
    <<Call("add_paint_callback", 0), Call("request_repaint", 0)>> \o PaintTrace

----------------------------------------------------------------------------
(* The observer of the toggle key: for every window of ai_one (and for MyApp, *)
(* under key 0) the visibility at the moment it started counting and the     *)
(* number of Space presses since.  It may start a new count when Space is   *)
(* released (at any frame of MyApp), and does so when the picker's close    *)
(* button is clicked and when the count would pass MaxPresses.              *)

Observe(o, k, restart, showAfter) ==
    IF restart \/ o.n + k > MaxPresses THEN [base |-> showAfter, n |-> 0]
    ELSE [base |-> o.base, n |-> o.n + k]

Odd(n) == n % 2 = 1

----------------------------------------------------------------------------
(* The state machine *)

\* what the last callback was and what it was given; fail is the step of
\* create_window (of MyApp::new) that failed, NoFail if none did
Last(kind, id, ev, resp, known, presses, fail) ==
    [kind |-> kind, id |-> id, ev |-> ev, resp |-> resp, known |-> known,
     presses |-> presses, fail |-> fail]

Init ==
    /\ prog \in Progs
    /\ windows = EmptyMap
    /\ app = MyAppNew
    /\ exitCalls = 0
    /\ panicked = FALSE
    /\ nextId = 1
    /\ closed = {}
    /\ trace = <<>>
    /\ last = Last("init", 0, NoEvent, NoResponse, FALSE, 0, NoFail)
    /\ obs = IF prog = "eframe_winit"
             THEN [i \in {0} |-> [base |-> InitialShow, n |-> 0]]
             ELSE EmptyMap

\* resumed; the platform hands the new window the next unused id
Resumed ==
    /\ ~panicked
    /\ prog # "eframe_winit"
    /\ IF ResumedCreates(prog, windows)
       THEN /\ nextId <= MaxWindows
            /\ \E inp \in CreateInputs(prog, nextId) :
                  LET full == CreateTrace(prog, nextId, inp.offered,
                                          inp.handle)
                      tr == CreateOutcome(full, inp.failAt)
                  IN  /\ trace' = tr
                      /\ last' = Last("resumed", 0, NoEvent, NoResponse, FALSE,
                                      0, FailedStep(full, inp.failAt))
                      /\ panicked' = CreateFails(full, inp.failAt)
                      /\ IF Stored(tr)
                         THEN /\ windows' = Insert(windows, nextId,
                                               NewWindowState(prog, nextId))
                              /\ nextId' = nextId + 1
                              /\ obs' = IF prog = "ai_one"
                                        THEN Insert(obs, nextId,
                                               [base |-> InitialShow, n |-> 0])
                                        ELSE obs
                         ELSE UNCHANGED <<windows, nextId, obs>>
       ELSE /\ trace' = <<>>
            /\ last' = Last("resumed", 0, NoEvent, NoResponse, FALSE, 0, NoFail)
            /\ UNCHANGED <<windows, nextId, obs, panicked>>
    /\ UNCHANGED <<prog, app, exitCalls, closed>>

WindowEvent(id, ev) ==
    /\ ~panicked
    /\ prog # "eframe_winit"
    /\ IF Dropped(windows, id, ev)
       THEN /\ trace' = <<>>
            /\ last' = Last("window_event", id, ev, NoResponse, FALSE, 0,
                            NoFail)
            /\ UNCHANGED <<windows, exitCalls, panicked, closed, obs>>
       ELSE \E resp \in ResponsesTo(prog, ev),
               delta \in (IF prog = "ai_one" /\ ev.kind = "RedrawRequested"
                          THEN Deltas ELSE {NoDelta}),
               sz \in (IF prog = "main" /\ ev.kind = "RedrawRequested"
                       THEN Dims \X Dims ELSE {<<0, 0>>}),
               failAt \in {"none"} \cup Fallible(prog, ev.kind),
               ui \in (IF /\ prog = "ai_one"
                          /\ ev.kind = "RedrawRequested"
                          /\ windows[id].show_color_picker
                       THEN UiInputs ELSE {NoUi}),
               mark \in (IF /\ prog = "ai_one"
                            /\ ev.kind = "KeyboardInput"
                            /\ ev.key = "Space"
                            /\ ~ev.pressed
                         THEN BOOLEAN ELSE {FALSE}) :
            LET full == ArmTrace(prog, windows, id, ev, delta, sz)
                arm == Truncate(full, failAt)
                st1 == KeyState(prog, windows[id], ev)
                st2 == ArmState(prog, st1, ev, ui)
                k == IF KeyToggles(ev) THEN 1 ELSE 0
                clicked == /\ ev.kind = "RedrawRequested"
                           /\ windows[id].show_color_picker
                           /\ ui.widget = "close"
            IN  /\ trace' = HandlerTrace(KeyTrace(prog, id, ev),
                                         ForwardTrace(prog, id, resp), arm)
                /\ panicked' = (\/ Fails(full, failAt)
                                \/ /\ ev.kind = "Resized"
                                   /\ ResizedUnwrapPanics(prog, ev.w, ev.h))
                /\ last' = Last("window_event", id, ev, resp,
                                Known(windows, id), 0, NoFail)
                /\ IF ev.kind = "CloseRequested"
                   THEN /\ windows' = Remove(windows, id)
                        /\ exitCalls' = exitCalls + Count(arm, "exit")
                        /\ closed' = closed \cup {id}
                        /\ obs' = Remove(obs, id)
                   ELSE /\ windows' = [windows EXCEPT ![id] = st2]
                        /\ UNCHANGED <<exitCalls, closed>>
                        /\ IF prog = "ai_one"
                           THEN obs' = [obs EXCEPT ![id] =
                                          Observe(@, k, mark \/ clicked,
                                                  st2.show_color_picker)]
                           ELSE obs' = obs
    /\ UNCHANGED <<prog, app, nextId>>

AboutToWait ==
    /\ ~panicked
    /\ prog # "eframe_winit"
    /\ trace' = AboutToWaitTrace(prog, windows)
    /\ last' = Last("about_to_wait", 0, NoEvent, NoResponse, FALSE, 0, NoFail)
    /\ UNCHANGED <<prog, windows, app, exitCalls, panicked, nextId, closed, obs>>

\* eframe builds the application once, before the first frame
New ==
    /\ ~panicked
    /\ prog = "eframe_winit"
    /\ last.kind = "init"
    /\ \E failAt \in {NoFail} \cup MyAppNewFallible :
          /\ trace' = CreateOutcome(MyAppNewTrace, failAt)
          /\ panicked' = CreateFails(MyAppNewTrace, failAt)
          /\ last' = Last("new", 0, NoEvent, NoResponse, FALSE, 0,
                          FailedStep(MyAppNewTrace, failAt))
    /\ app' = MyAppNew
    /\ UNCHANGED <<prog, windows, exitCalls, nextId, closed, obs>>

\* one frame of the eframe program
Update(presses, ui, mark) ==
    /\ ~panicked
    /\ prog = "eframe_winit"
    /\ last.kind # "init"
    /\ ui.widget # "none" => MyAppToggle(app, presses).show_color_picker
    /\ LET clicked == /\ MyAppToggle(app, presses).show_color_picker
                      /\ ui.widget = "close"
       IN  /\ app' = MyAppUpdate(app, presses, ui)
           /\ obs' = [obs EXCEPT ![0] =
                        Observe(@, presses, mark \/ clicked,
                                app'.show_color_picker)]
    /\ trace' = UpdateTrace
    /\ last' = Last("update", 0, NoEvent, NoResponse, FALSE, presses, NoFail)
    /\ UNCHANGED <<prog, windows, exitCalls, panicked, nextId, closed>>

Next ==
    \/ Resumed
    \/ \E id \in Ids, ev \in Events : WindowEvent(id, ev)
    \/ AboutToWait
    \/ New
    \/ \E presses \in 0..MaxFramePresses, ui \in UiInputs, mark \in BOOLEAN :
          Update(presses, ui, mark)

Spec == Init /\ [][Next]_vars

\* the event loop keeps ticking: about_to_wait is called again and again
LiveSpec == Spec /\ WF_vars(AboutToWait)

----------------------------------------------------------------------------
(* Properties *)

Handled(l, kind) == l.kind = "window_event" /\ l.known /\ l.ev.kind = kind

Before(tr, a, b) == \A i \in Positions(tr, a), j \in Positions(tr, b) : i < j

\* C1: in every program, a call to resumed while the mapping holds a window
\* leaves the mapping unchanged.
ResumedIdempotent ==
    [][(last'.kind = "resumed" /\ DOMAIN windows # {}) => windows' = windows]_vars

\* C2: CloseRequested for the only window of the mapping empties the mapping
\* and calls event_loop.exit() exactly once; a later window event for an id
\* that was closed calls exit no more.
CloseOnlyWindowExitsOnce ==
    [][/\ (/\ last'.kind = "window_event"
           /\ last'.ev.kind = "CloseRequested"
           /\ DOMAIN windows = {last'.id})
          => (/\ DOMAIN windows' = {}
              /\ exitCalls' = exitCalls + 1
              /\ Count(trace', "exit") = 1)
       /\ (last'.kind = "window_event" /\ last'.id \in closed)
          => (exitCalls' = exitCalls /\ Count(trace', "exit") = 0)]_vars

ClosedAgain ==
    /\ last.kind = "window_event"
    /\ last.ev.kind = "CloseRequested"
    /\ last.id \in closed
    /\ ~last.known
    /\ DOMAIN windows = {}
    /\ exitCalls = 1

ZeroResized(l) == Handled(l, "Resized") /\ (l.ev.w = 0 \/ l.ev.h = 0)

\* C3, as claimed: a Resized event with a zero width or height, for a window
\* of the mapping, resizes no surface, requests no redraw and does not panic.
ZeroResizeDoesNothing ==
    ZeroResized(last)
    => /\ Count(trace, "resize") = 0
       /\ Count(trace, "request_redraw") = 0
       /\ ~panicked

\* C3, amended: a Resized event with a zero width or height, for a window of
\* the mapping, resizes no surface and does not panic; it requests no redraw,
\* except that ai_one requests one when egui's response to the forwarded
\* event has repaint set.
ZeroResizeNoSurfaceResize ==
    ZeroResized(last)
    => /\ Count(trace, "resize") = 0
       /\ ~panicked
       /\ Count(trace, "request_redraw") =
             (IF prog = "ai_one" /\ last.resp.repaint THEN 1 ELSE 0)

ZeroWidthResized ==
    /\ Handled(last, "Resized")
    /\ last.ev.w = 0
    /\ last.ev.h = 600
    /\ prog = "ai_one"
    /\ last.resp.repaint

\* C4: a window event whose id is no key of the mapping changes nothing: the
\* mapping (every window's show_color_picker and color), the exit signal and
\* the process are as before, and the handler makes no call.
UnknownWindowDropped ==
    [][(last'.kind = "window_event" /\ last'.id \notin DOMAIN windows)
       => /\ windows' = windows
          /\ exitCalls' = exitCalls
          /\ panicked' = panicked
          /\ trace' = <<>>]_vars

StaleCloseDropped ==
    /\ last.kind = "window_event"
    /\ ~last.known
    /\ last.ev.kind = "CloseRequested"
    /\ DOMAIN windows # {}
    /\ last.id \in closed
    /\ exitCalls = 0

\* C5: in ai_one every RedrawRequested for a window of the mapping issues
\* exactly one draw call, of 3 vertices, before any paint_primitives, and
\* exactly one swap_buffers, after both.
FrameDrawOrder ==
    (prog = "ai_one" /\ Handled(last, "RedrawRequested"))
    => /\ Count(trace, "draw_arrays") = 1
       /\ \A i \in Positions(trace, "draw_arrays") :
             trace[i].arg = TriangleVertices
       /\ Before(trace, "draw_arrays", "paint_primitives")
       /\ Count(trace, "swap_buffers") = 1
       /\ Before(trace, "draw_arrays", "swap_buffers")
       /\ Before(trace, "paint_primitives", "swap_buffers")

FramePainted ==
    /\ prog = "ai_one"
    /\ Handled(last, "RedrawRequested")
    /\ Count(trace, "paint_primitives") = 1
    /\ Count(trace, "swap_buffers") = 1
    /\ ~panicked

\* C6: in every frame of ai_one every set_texture of the frame's texture
\* delta comes before paint_primitives and every free_texture after it.
TextureOrder ==
    (prog = "ai_one" /\ Handled(last, "RedrawRequested"))
    => /\ Count(trace, "paint_primitives") = 1
       /\ Before(trace, "set_texture", "paint_primitives")
       /\ Before(trace, "paint_primitives", "free_texture")

FrameWithUploadAndFree ==
    /\ prog = "ai_one"
    /\ Handled(last, "RedrawRequested")
    /\ Count(trace, "set_texture") >= 1
    /\ Count(trace, "free_texture") >= 1

Shown(i) ==
    IF prog = "eframe_winit" THEN app.show_color_picker
    ELSE windows[i].show_color_picker

\* C7: n presses of Space with no click on the picker's close button in
\* between leave show_color_picker at its value before them when n is even
\* and at the negation of that value when n is odd.
ToggleParity ==
    \A i \in DOMAIN obs :
        Shown(i) = (IF Odd(obs[i].n) THEN ~obs[i].base ELSE obs[i].base)

\* C8: in ai_one, for a keyboard event of a window of the mapping, the Space
\* check and the toggle come before the event is forwarded to egui, the
\* toggle happens whatever egui answers, and the event is forwarded once.
KeyInterceptedBeforeForward ==
    [][(prog = "ai_one" /\ Handled(last', "KeyboardInput"))
       => /\ Count(trace', "on_window_event") = 1
          /\ Count(trace', "toggle") = (IF KeyToggles(last'.ev) THEN 1 ELSE 0)
          /\ Before(trace', "toggle", "on_window_event")
          /\ windows'[last'.id].show_color_picker =
                (IF KeyToggles(last'.ev)
                 THEN ~windows[last'.id].show_color_picker
                 ELSE windows[last'.id].show_color_picker)]_vars

SpaceConsumedStillToggles ==
    /\ prog = "ai_one"
    /\ Handled(last, "KeyboardInput")
    /\ KeyToggles(last.ev)
    /\ last.resp.consumed
    /\ last.id \in DOMAIN windows
    /\ windows[last.id].show_color_picker
    /\ Count(trace, "on_window_event") = 1

Requested(tr, id) == \E i \in 1..Len(tr) : tr[i] = Call("request_redraw", id)

\* C9: in ai_one every about_to_wait requests a redraw of every window of the
\* mapping; while the event loop keeps calling it, a window that stays open
\* has its redraw requested again and again.
RedrawEveryTick ==
    /\ []((prog = "ai_one" /\ last.kind = "about_to_wait")
          => \A id \in DOMAIN windows : Requested(trace, id))
    /\ \A id \in Ids :
          []<>(\/ prog # "ai_one"
               \/ panicked
               \/ id \notin DOMAIN windows
               \/ (last.kind = "about_to_wait" /\ Requested(trace, id)))

TickWithHiddenPicker ==
    /\ prog = "ai_one"
    /\ last.kind = "about_to_wait"
    /\ \E id \in DOMAIN windows :
          ~windows[id].show_color_picker /\ Requested(trace, id)

InUnit(color) == \A c \in 1..3 : 0 <= color[c] /\ color[c] <= One

\* C10: every color component of a window (of MyApp) is in [0.0, 1.0] in
\* every reachable state, however far and in whichever direction a slider is
\* dragged.
ColorInUnitRange ==
    /\ prog = "ai_one" => \A id \in DOMAIN windows : InUnit(windows[id].color)
    /\ prog = "eframe_winit" => InUnit(app.color)

DraggedPastBothEnds ==
    /\ prog = "ai_one"
    /\ \E id \in DOMAIN windows :
          windows[id].color[1] = 0 /\ windows[id].color[2] = One

\* the steps of a complete create_window that are made once
StepsOnce(p) ==
    IF p = "main" THEN {"create_window", "Surface_new"}
    ELSE {"build", "reduce", "build_surface_attributes",
          "create_window_surface", "create_context", "make_current",
          "create_vertex_array", "create_program", "link_program",
          "get_program_link_status"}
         \cup (IF p = "ai_one" THEN {"Painter_new"} ELSE {})

\* and those made once for every shader stage
StepsPerStage ==
    {"create_shader", "shader_source", "compile_shader",
     "get_shader_compile_status", "attach_shader", "detach_shader",
     "delete_shader"}

CompletedEveryStep(tr, p) ==
    /\ \A op \in StepsOnce(p) : Count(tr, op) = 1
    /\ p # "main" => \A op \in StepsPerStage : Count(tr, op) = Len(ShaderSources)
    /\ Count(tr, "get_shader_info_log") = 0
    /\ Count(tr, "get_program_info_log") = 0

\* C11: when a step of create_window fails (building the display and the
\* window, picking a configuration, the surface, the context, making it
\* current, the GL objects, the shaders, the painter), resumed aborts the
\* process and the mapping is as before; an entry that resumed adds to the
\* mapping belongs to a creation none of whose steps failed and that made
\* every step.  A window that has no raw handle to give is no failed step:
\* the context is created without one.
CreationFailureAborts ==
    [][last'.kind = "resumed"
       => /\ last'.fail # NoFail => (panicked' /\ windows' = windows)
          /\ \A id \in DOMAIN windows' \ DOMAIN windows :
                /\ last'.fail = NoFail
                /\ ~panicked'
                /\ CompletedEveryStep(trace', prog)]_vars

ContextCreationFailed ==
    /\ prog = "ai_one"
    /\ last.kind = "resumed"
    /\ last.fail.op = "create_context"
    /\ Count(trace, "build") = 1
    /\ panicked
    /\ DOMAIN windows = {}

\* the sample counts the picker read, in the order offered
Offered(tr) ==
    [i \in 1..Count(tr, "num_samples") |->
        tr[SetToSeq(Positions(tr, "num_samples"))[i]].arg]

\* the place of the configuration the picker returned
Picked(tr) == tr[CHOOSE i \in Positions(tr, "reduce") : TRUE].arg

\* C12: for every non-empty sequence of offered configurations the picker
\* returns one of them, its sample count is the largest of the sequence, and
\* every configuration offered before it has a smaller sample count.
PickerReturnsFirstMax ==
    (/\ last.kind = "resumed"
     /\ Count(trace, "reduce") = 1
     /\ Offered(trace) # <<>>)
    => LET o == Offered(trace)
           k == Picked(trace)
       IN  /\ k \in 1..Len(o)
           /\ \A j \in 1..Len(o) : o[j] <= o[k]
           /\ \A j \in 1..(k - 1) : o[j] < o[k]

TiePickedFirst ==
    /\ last.kind = "resumed"
    /\ Count(trace, "reduce") = 1
    /\ Offered(trace) = <<0, 4, 4>>
    /\ Picked(trace) = 2
    /\ DOMAIN windows # {}

\* C13: CloseRequested for a window of the mapping removes that window's
\* entry and leaves every other entry as it was; event_loop.exit() is called
\* during the event exactly when the mapping is empty after the removal, and
\* then once.
CloseRemovesOnlyThatWindow ==
    [][(/\ last'.kind = "window_event"
        /\ last'.ev.kind = "CloseRequested"
        /\ last'.id \in DOMAIN windows)
       => /\ DOMAIN windows' = DOMAIN windows \ {last'.id}
          /\ \A j \in DOMAIN windows' : windows'[j] = windows[j]
          /\ Count(trace', "exit") = (IF DOMAIN windows' = {} THEN 1 ELSE 0)
          /\ exitCalls' = exitCalls + Count(trace', "exit")]_vars

ClosedOneOfTwo ==
    /\ prog = "main"
    /\ Handled(last, "CloseRequested")
    /\ last.id = 1
    /\ DOMAIN windows = {2}
    /\ Count(trace, "remove") = 1
    /\ Count(trace, "exit") = 0
    /\ exitCalls = 0

OverlayFrame == prog = "ai_one" /\ Handled(last, "RedrawRequested")

\* C14, as claimed: in every frame of ai_one the overlay takes the input,
\* runs the UI closure, uploads the new textures, tessellates, paints, and
\* only then handles the platform output.
OverlayStepsPlatformOutputLast ==
    OverlayFrame
    => /\ Before(trace, "take_egui_input", "run")
       /\ Before(trace, "run", "set_texture")
       /\ Before(trace, "run", "tessellate")
       /\ Before(trace, "set_texture", "tessellate")
       /\ Before(trace, "tessellate", "paint_primitives")
       /\ Before(trace, "paint_primitives", "handle_platform_output")

\* C14, amended: in every frame of ai_one the overlay takes the input, runs
\* the UI closure, handles the platform output, uploads the new textures,
\* tessellates and paints, each step once (one upload per texture), in that
\* order: the platform output is handled right after the UI closure, before
\* the overlay is painted.
OverlayStepsPlatformOutputAfterRun ==
    OverlayFrame
    => /\ \A op \in {"take_egui_input", "run", "handle_platform_output",
                     "tessellate", "paint_primitives"} : Count(trace, op) = 1
       /\ Before(trace, "take_egui_input", "run")
       /\ Before(trace, "run", "handle_platform_output")
       /\ Before(trace, "handle_platform_output", "set_texture")
       /\ Before(trace, "handle_platform_output", "tessellate")
       /\ Before(trace, "set_texture", "tessellate")
       /\ Before(trace, "tessellate", "paint_primitives")

FrameWithPickerAndUpload ==
    /\ OverlayFrame
    /\ last.id \in DOMAIN windows
    /\ windows[last.id].show_color_picker
    /\ Count(trace, "handle_platform_output") = 1
    /\ Count(trace, "set_texture") = MaxTex
    /\ Count(trace, "paint_primitives") = 1

\* a frame of the program p: a RedrawRequested of one of its windows, or an
\* update of MyApp
FrameOf(p) ==
    /\ prog = p
    /\ IF p = "eframe_winit" THEN last.kind = "update"
       ELSE Handled(last, "RedrawRequested")

\* the calls bind the program and the vertex array before the 3-vertex draw
Rebinds(tr) ==
    /\ Count(tr, "use_program") >= 1
    /\ Count(tr, "bind_vertex_array") >= 1
    /\ Count(tr, "draw_arrays") = 1
    /\ \A i \in Positions(tr, "draw_arrays") : tr[i].arg = TriangleVertices
    /\ Before(tr, "use_program", "draw_arrays")
    /\ Before(tr, "bind_vertex_array", "draw_arrays")

\* C15, as claimed: in glow_run, ai_one and eframe_winit every frame binds
\* the triangle's program and vertex array before its 3-vertex draw call.
EveryGpuFrameRebinds ==
    \A p \in {"glow_run", "ai_one", "eframe_winit"} :
        FrameOf(p) => Rebinds(trace)

\* C15, amended: in ai_one and eframe_winit, the programs with a UI overlay,
\* every frame binds the triangle's program and vertex array before its
\* 3-vertex draw call; a frame of glow_run binds neither and makes its one
\* 3-vertex draw with what create_window bound, and create_window binds
\* both before it stores the window.
OverlayFramesRebind ==
    /\ \A p \in {"ai_one", "eframe_winit"} : FrameOf(p) => Rebinds(trace)
    /\ FrameOf("glow_run")
       => /\ Count(trace, "use_program") = 0
          /\ Count(trace, "bind_vertex_array") = 0
          /\ Count(trace, "draw_arrays") = 1
    /\ (prog = "glow_run" /\ last.kind = "resumed" /\ Stored(trace))
       => /\ Count(trace, "use_program") = 1
          /\ Count(trace, "bind_vertex_array") = 1
          /\ Before(trace, "use_program", "insert")
          /\ Before(trace, "bind_vertex_array", "insert")

UpdatePaintsWithPickerShown ==
    /\ FrameOf("eframe_winit")
    /\ app.show_color_picker
    /\ Count(trace, "use_program") = 1
    /\ Count(trace, "draw_arrays") = 1

\* where the call op was made for the shader stage at place i
At(tr, op, i) == {k \in 1..Len(tr) : tr[k] = Call(op, i)}

\* every a comes before every b, and there is no b without an a
Precedes(A, B) ==
    /\ \A x \in A, y \in B : x < y
    /\ B # {} => A # {}

Stages == 1..Len(ShaderSources)

ShaderSetupOrdered(tr) ==
    /\ \A i \in Stages :
          /\ Precedes(At(tr, "create_shader", i), At(tr, "shader_source", i))
          /\ Precedes(At(tr, "shader_source", i), At(tr, "compile_shader", i))
          /\ Precedes(At(tr, "compile_shader", i),
                      At(tr, "get_shader_compile_status", i))
          /\ Precedes(At(tr, "get_shader_compile_status", i),
                      At(tr, "attach_shader", i))
          /\ Cardinality(At(tr, "attach_shader", i)) <= 1
    /\ \A i \in Stages, j \in Stages :
          i < j => Precedes(At(tr, "attach_shader", i),
                            At(tr, "create_shader", j))
    /\ \A i \in Stages :
          Precedes(At(tr, "attach_shader", i), Positions(tr, "link_program"))
    /\ Precedes(Positions(tr, "link_program"),
                Positions(tr, "get_program_link_status"))
    /\ \A op \in {"detach_shader", "delete_shader"} :
          Precedes(Positions(tr, "get_program_link_status"), Positions(tr, op))

CompileOrLinkFailed(l) ==
    l.fail.op \in {"get_shader_compile_status", "get_program_link_status"}

\* C16: in glow_run, ai_one and MyApp::new the shader setup goes stage by
\* stage, vertex then fragment: create, source, compile, compile status,
\* attach; the program is linked after every stage is attached, and its link
\* status is read before any shader is detached or deleted.  When a compile
\* status or the link status is false the process aborts: the failed stage
\* is not attached, no shader is detached or deleted, and no window state is
\* stored.
ShaderSetupOrder ==
    [][(last'.kind \in {"resumed", "new"} /\ prog # "main")
       => /\ ShaderSetupOrdered(trace')
          /\ CompileOrLinkFailed(last')
             => /\ panicked'
                /\ Count(trace', "detach_shader") = 0
                /\ Count(trace', "delete_shader") = 0
                /\ Count(trace', "insert") = 0
                /\ windows' = windows
                /\ last'.fail.op = "get_shader_compile_status"
                   => At(trace', "attach_shader", last'.fail.arg) = {}]_vars

FragmentCompileFailed ==
    /\ prog = "ai_one"
    /\ last.kind = "resumed"
    /\ last.fail = Call("get_shader_compile_status", Len(ShaderSources))
    /\ Count(trace, "attach_shader") = 1
    /\ Count(trace, "get_shader_info_log") = 1
    /\ panicked
    /\ DOMAIN windows = {}

\* C17: in ai_one a window's show_color_picker changes only during a window
\* event for that window that is a press of Space or a RedrawRequested, and
\* its color only during a RedrawRequested for that window; a key release,
\* another key, Resized, about_to_wait, resumed and every event for another
\* window leave both as they were.
PickerStateChangesOnlyBySpaceOrUi ==
    [][prog = "ai_one"
       => \A j \in DOMAIN windows \cap DOMAIN windows' :
             /\ windows'[j].show_color_picker # windows[j].show_color_picker
                => /\ last'.kind = "window_event"
                   /\ last'.id = j
                   /\ \/ /\ last'.ev.kind = "KeyboardInput"
                         /\ last'.ev.pressed
                         /\ last'.ev.key = "Space"
                      \/ last'.ev.kind = "RedrawRequested"
             /\ windows'[j].color # windows[j].color
                => /\ last'.kind = "window_event"
                   /\ last'.id = j
                   /\ last'.ev.kind = "RedrawRequested"]_vars

OtherKeyLeavesPickerShown ==
    /\ prog = "ai_one"
    /\ Handled(last, "KeyboardInput")
    /\ last.ev.key = "KeyA"
    /\ last.ev.pressed
    /\ last.id \in DOMAIN windows
    /\ windows[last.id].show_color_picker
    /\ windows[last.id].color # InitialColor

====
